---- MODULE Spec2Model ----
(***************************************************************************)
(* A model of idasen_ha.connection_manager.ConnectionManager: the          *)
(* connect -> pair -> ready state machine, its reconnect timer and the      *)
(* tasks it puts on the asyncio event loop; and of idasen_ha.Desk, the      *)
(* wrapper that owns the manager, keeps the last height and reports it as   *)
(* a percentage to the observer (update_callback).                          *)
(*                                                                          *)
(* asyncio runs one coroutine at a time and switches only at an await that  *)
(* really suspends, so every action below is the code between two           *)
(* suspension points: link.connect(), link.pair(), link.disconnect(), the   *)
(* connect callback, asyncio.sleep() and the start of a created task.       *)
(* The link (IdasenDesk) is external: what its calls return, and when it    *)
(* drops, is chosen by the environment.                                     *)
(***************************************************************************)
EXTENDS Integers, FiniteSets, Sequences, Bags, TLC

\* ---------------------------------------------------------------- bounds
\* user connect()/disconnect() calls in one behaviour
MaxUserCalls == 3
\* unsolicited drops of the link in one behaviour
MaxDrops == 2
\* link.connect() / link.pair() / connect-callback failures in one behaviour
MaxFailures == 2
\* user move_to()/move_up()/move_down()/stop() calls in one behaviour
MaxDeskCalls == 2
\* the rounding error of a height computed in floating point, in units of
\* 0.1 mm (the real error is smaller by many orders of magnitude)
FloatErr == 1

VARIABLES
    keep_connected,   \* ConnectionManager._keep_connected (DesiredState)
    connecting,       \* ConnectionManager._connecting (attempt in flight)
    retry_pending,    \* ConnectionManager._retry_pending
    is_connected,     \* IdasenDesk.is_connected of the owned link
    tasks,            \* bag of suspended coroutines of this manager
    ev,               \* what the last step did (calls, callbacks, outcome)
    userCalls,        \* user calls made so far
    drops,            \* unsolicited drops so far
    failures,         \* failures the link / callback has produced so far
    race,             \* the user's disconnect() with no connect() since: "off",
                      \* or "requested" / "completed" when it came during an
                      \* attempt that is in flight / has completed since
    desk,             \* the fields of Desk and of the link it commands
    dtasks,           \* bag of suspended coroutines of Desk.move_to / Desk.stop
    dev,              \* what the last step did at the Desk: observer, commands
    deskCalls         \* user calls of move_to / move_up / move_down / stop

vars == <<keep_connected, connecting, retry_pending, is_connected, tasks, ev,
          userCalls, drops, failures, race, desk, dtasks, dev, deskCalls>>

deskVars == <<desk, dtasks, dev, deskCalls>>

\* ------------------------------------------------------------ vocabulary
ConnectErrors == {"TimeoutError", "BleakError"}
PairErrors == {"AuthFailed", "BleakDBusError", "Exception"}
AuthDBusError == "AuthFailed"

\* A suspended coroutine: where it waits, who started it, the retry argument
\* of its _connect, the pairing error it is cleaning up after, and whether
\* the link was connected when its attempt began.
Task(pc, origin, retry, err, conn0) ==
    [pc |-> pc, origin |-> origin, retry |-> retry, err |-> err, conn0 |-> conn0]

\* The label of a step: nothing called, nothing invoked, nobody answered.
NoEv ==
    [op |-> "none", origin |-> "none", retry |-> FALSE,
     result |-> "none", error |-> "none", failedAt |-> "none",
     connectStarted |-> FALSE, pairStarted |-> FALSE, disconnectCalled |-> FALSE,
     connectCb |-> FALSE, disconnectCb |-> FALSE,
     schedCalled |-> FALSE, scheduled |-> FALSE, spawned |-> "none",
     conn0 |-> FALSE, cleaned |-> FALSE, cause |-> "none"]

\* The manager and its link as one value, so that the methods below are
\* functions from state to state and compose the way the calls nest.
State ==
    [keep |-> keep_connected, connecting |-> connecting,
     retry_pending |-> retry_pending, is_connected |-> is_connected,
     tasks |-> tasks, ev |-> NoEv]

Begin(op, origin, retry) ==
    [State EXCEPT !.ev.op = op, !.ev.origin = origin, !.ev.retry = retry]

Put(s) ==
    /\ keep_connected' = s.keep
    /\ connecting' = s.connecting
    /\ retry_pending' = s.retry_pending
    /\ is_connected' = s.is_connected
    /\ tasks' = s.tasks
    /\ ev' = s.ev

AddTask(s, t) == [s EXCEPT !.tasks = @ (+) SetToBag({t})]
DelTask(s, t) == [s EXCEPT !.tasks = @ (-) SetToBag({t})]

Returned(s) == [s EXCEPT !.ev.result = "returned"]
Raised(s, e, at) ==
    [s EXCEPT !.ev.result = "raised", !.ev.error = e, !.ev.failedAt = at]

TasksAt(pcs) == {t \in BagToSet(tasks) : t.pc \in pcs}

\* ------------------------------------------------- ConnectionManager code

\* _schedule_reconnect without its pending check.
_schedule_reconnect_unguarded(s) ==
    AddTask([s EXCEPT !.retry_pending = TRUE, !.ev.schedCalled = TRUE,
                      !.ev.scheduled = TRUE],
            Task("sleep", "timer", TRUE, "none", FALSE))

\* _schedule_reconnect, lines 98-125: one timer task unless one is pending.
\* The task it creates waits in asyncio.sleep(RECONNECT_INTERVAL_SEC).
_schedule_reconnect(s) ==
    LET s1 == [s EXCEPT !.ev.schedCalled = TRUE] IN
    IF s1.retry_pending
    THEN s1
    ELSE AddTask([s1 EXCEPT !.retry_pending = TRUE, !.ev.scheduled = TRUE],
                 Task("sleep", "timer", TRUE, "none", FALSE))

\* _connect without its in-flight check.
_connect_unguarded(s, origin, retry) ==
    AddTask([s EXCEPT !.connecting = TRUE, !.ev.connectStarted = TRUE],
            Task("link_connect", origin, retry, "none", s.is_connected))

\* _connect up to its first suspension, lines 59-68: the in-flight guard,
\* then link.connect() is awaited.
_connect(s, origin, retry) ==
    IF s.connecting
    THEN Returned(s)
    ELSE AddTask([s EXCEPT !.connecting = TRUE, !.ev.connectStarted = TRUE],
                 Task("link_connect", origin, retry, "none", s.is_connected))

\* connect, lines 41-44.
connect(s, origin, retry) == _connect([s EXCEPT !.keep = TRUE], origin, retry)

\* disconnect that calls link.disconnect() whatever the link reports.
disconnect_always(s, origin) ==
    AddTask([s EXCEPT !.keep = FALSE, !.ev.disconnectCalled = TRUE],
            Task("link_disconnect", origin, FALSE, "none", FALSE))

\* disconnect up to its suspension, lines 46-50.
disconnect(s, origin) ==
    LET s1 == [s EXCEPT !.keep = FALSE] IN
    IF s1.is_connected
    THEN AddTask([s1 EXCEPT !.ev.disconnectCalled = TRUE],
                 Task("link_disconnect", origin, FALSE, "none", FALSE))
    ELSE Returned(s1)

\* _handle_disconnect that reports the drop and starts no reconnection.
_handle_disconnect_no_reconnect(s) ==
    IF s.connecting THEN s ELSE [s EXCEPT !.ev.disconnectCb = TRUE]

\* _handle_disconnect without its check of the in-flight flag.
_handle_disconnect_unguarded(s) ==
    LET s1 == [s EXCEPT !.ev.disconnectCb = TRUE] IN
    IF s1.keep /\ ~s1.retry_pending
    THEN AddTask([s1 EXCEPT !.ev.spawned = "connect"],
                 Task("start_connect", "task", TRUE, "none", FALSE))
    ELSE s1

\* _handle_disconnect, lines 134-146.
_handle_disconnect(s) ==
    IF s.connecting
    THEN s
    ELSE LET s1 == [s EXCEPT !.ev.disconnectCb = TRUE] IN
         IF s1.keep /\ ~s1.retry_pending
         THEN AddTask([s1 EXCEPT !.ev.spawned = "connect"],
                      Task("start_connect", "task", TRUE, "none", FALSE))
         ELSE s1

\* The link going down, by a drop or by link.disconnect() taking effect: the
\* disconnected_callback given to IdasenDesk (line 56) runs _handle_disconnect.
LinkDown(s) ==
    IF s.is_connected
    THEN _handle_disconnect([s EXCEPT !.is_connected = FALSE])
    ELSE s

\* A finally clause that leaves the in-flight flag as it is.
Finally_keeps_flag(s) == s

\* The finally clause of _connect, lines 95-96.
Finally(s) == [s EXCEPT !.connecting = FALSE]

\* AfterConnect scheduling a reconnect whatever the retry argument.
AfterConnect_always_retry(s, t, outcome) ==
    IF outcome = "ok"
    THEN AddTask([s EXCEPT !.is_connected = TRUE, !.ev.pairStarted = TRUE],
                 [t EXCEPT !.pc = "link_pair"])
    ELSE Finally(Returned([_schedule_reconnect(s) EXCEPT !.ev.failedAt = "connect"]))

\* link.connect() has returned or raised, lines 68-79.
AfterConnect(s, t, outcome) ==
    IF outcome = "ok"
    THEN AddTask([s EXCEPT !.is_connected = TRUE, !.ev.pairStarted = TRUE],
                 [t EXCEPT !.pc = "link_pair"])
    ELSE IF t.retry
         THEN Finally(Returned([_schedule_reconnect(s) EXCEPT !.ev.failedAt = "connect"]))
         ELSE Finally(Raised(s, outcome, "connect"))

\* _handle_connect up to the awaited callback, lines 127-129.
_handle_connect(s, t) ==
    AddTask([s EXCEPT !.ev.connectCb = TRUE], [t EXCEPT !.pc = "connect_callback"])

\* AfterPair whose generic except clause forgets the cleanup disconnect.
AfterPair_no_cleanup(s, t, outcome) ==
    IF outcome = "ok"
    THEN _handle_connect(s, t)
    ELSE IF outcome = "Exception"
         THEN IF t.retry
              THEN Finally(Returned([_schedule_reconnect(s) EXCEPT !.ev.failedAt = "pair"]))
              ELSE Finally(Raised(s, outcome, "pair"))
         ELSE AddTask([s EXCEPT !.ev.disconnectCalled = TRUE, !.ev.failedAt = "pair"],
                      [t EXCEPT !.pc = "pair_cleanup", !.err = outcome])

\* link.pair() has returned or raised, lines 79-94: either except clause
\* awaits link.disconnect() first.
AfterPair(s, t, outcome) ==
    IF outcome = "ok"
    THEN _handle_connect(s, t)
    ELSE AddTask([s EXCEPT !.ev.disconnectCalled = TRUE, !.ev.failedAt = "pair"],
                 [t EXCEPT !.pc = "pair_cleanup", !.err = outcome])

\* AfterCleanup that looks at the retry argument before the kind of error.
AfterCleanup_retry_first(s, t) ==
    IF t.retry
    THEN Finally(Returned([_schedule_reconnect(s) EXCEPT !.ev.failedAt = "pair"]))
    ELSE IF t.err = AuthDBusError
         THEN Finally(Raised(s, "AuthFailedError", "pair"))
         ELSE Finally(Raised(s, t.err, "pair"))

\* After the cleanup link.disconnect() of a failed pairing, lines 82-92.
AfterCleanup(s, t) ==
    IF t.err = AuthDBusError
    THEN Finally(Raised(s, "AuthFailedError", "pair"))
    ELSE IF t.err = "BleakDBusError"
         THEN Finally(Raised(s, "BleakDBusError", "pair"))
         ELSE IF t.retry
              THEN Finally(Returned([_schedule_reconnect(s) EXCEPT !.ev.failedAt = "pair"]))
              ELSE Finally(Raised(s, t.err, "pair"))

\* The connect callback has returned or raised, lines 129-132 and 95-96.
AfterCallback(s, outcome) ==
    IF outcome = "ok"
    THEN Finally(Returned(
            IF ~s.keep
            THEN AddTask([s EXCEPT !.ev.spawned = "disconnect"],
                         Task("start_disconnect", "task", FALSE, "none", FALSE))
            ELSE s))
    ELSE Finally(Raised(s, outcome, "callback"))

\* _reconnect that does not ask whether the link is connected.
_reconnect_no_connected_check(s) ==
    LET s1 == [s EXCEPT !.retry_pending = FALSE] IN
    IF ~s1.keep
    THEN Returned(s1)
    ELSE _connect(s1, "timer", TRUE)

\* _reconnect after its sleep, lines 109-123.
_reconnect(s) ==
    LET s1 == [s EXCEPT !.retry_pending = FALSE] IN
    IF ~s1.keep
    THEN Returned(s1)
    ELSE IF s1.is_connected
         THEN Returned(s1)
         ELSE _connect(s1, "timer", TRUE)

\* ---------------------------------------------------------------- Desk code

\* IdasenDesk.MIN_HEIGHT and IdasenDesk.MAX_HEIGHT (0.62 m and 1.27 m), in
\* units of 0.1 mm. Heights are these integers; a height that the code
\* computes in floating point is the exact value with an error of at most
\* FloatErr units.
MIN_HEIGHT == 6200
MAX_HEIGHT == 12700

\* int | None and float | None: a sequence that is empty or holds the value.
None == << >>
Some(x) == << x >>

\* The two BLE devices the user may hand to Desk.connect, by address.
Addresses == {1, 2}

\* round(x / d) of Python: the nearest integer, a tie going to the even one.
Round(x, d) ==
    LET q == x \div d
        r == x - q * d
    IN  IF 2 * r < d THEN q
        ELSE IF 2 * r > d THEN q + 1
        ELSE IF q % 2 = 0 THEN q ELSE q + 1

\* int(x / d): the quotient cut towards zero.
Truncate(x, d) == IF x >= 0 THEN x \div d ELSE 0 - ((0 - x) \div d)

\* height_percent that cuts the quotient instead of rounding it.
height_percent_truncated(height) ==
    IF height = None
    THEN None
    ELSE Some(Truncate(100 * (height[1] - MIN_HEIGHT), MAX_HEIGHT - MIN_HEIGHT))

\* Desk.height_percent, lines 120-132.
height_percent(height) ==
    IF height = None
    THEN None
    ELSE Some(Round(100 * (height[1] - MIN_HEIGHT), MAX_HEIGHT - MIN_HEIGHT))

\* The height Desk.move_to computes for a percentage, lines 79-81, err being
\* the rounding error of the floating point evaluation.
TargetHeight(pct, err) ==
    MIN_HEIGHT + ((MAX_HEIGHT - MIN_HEIGHT) * pct) \div 100 + err

FloatErrors == (0 - FloatErr) .. FloatErr

\* Desk.__init__, lines 21-40, and the link the Desk commands: the address of
\* _ble_device (0: none, and then no manager either), _height,
\* _monitor_height, whether monitor() has subscribed update_height on the
\* connected link, IdasenDesk.is_moving, how far the connect callback of the
\* attempt in flight has got, and the Desk.connect that waits for the
\* disconnect() of the manager it replaces.
NewDesk(monitor_height) ==
    [ble_device |-> 0, height |-> None, monitor_height |-> monitor_height,
     monitoring |-> FALSE, is_moving |-> FALSE, callback |-> "idle",
     switching |-> None]

\* A suspended coroutine of Desk.move_to or Desk.stop.
DeskTask(pc, pct) == [pc |-> pc, pct |-> pct]

\* The label of a step at the Desk: no observer call, no command to the link.
NoDev ==
    [op |-> "none", pct |-> 0, returned |-> FALSE,
     observed |-> 0, payload |-> None,
     stopCalled |-> FALSE, written |-> None,
     created |-> FALSE, reused |-> FALSE, oldConnected |-> FALSE]

DeskOp(op) == [NoDev EXCEPT !.op = op]

\* self._update_callback(self.height_percent), lines 111, 148 and 165.
update_callback(dv, d) ==
    [dv EXCEPT !.observed = @ + 1, !.payload = height_percent(d.height)]

\* A disconnect callback that reports no height.
disconnect_callback_absent(dv, d) ==
    [dv EXCEPT !.observed = @ + 1, !.payload = None]

\* The disconnect callback of the Desk, lines 145-148.
disconnect_callback(dv, d) == update_callback(dv, d)

\* ConnectionManager._disconnect_callback of the manager of a Desk: the
\* disconnect-observed callback, by which the Desk forwards the event to the
\* observer with the current percentage.
_disconnect_callback(dv, d) == disconnect_callback(dv, d)

\* update_height, lines 109-111: the link reports a height.
update_height(d, height) == [d EXCEPT !.height = Some(height)]

\* ConnectionManager.__init__, lines 20-34: a new manager with a new link.
NewManager(s) ==
    [s EXCEPT !.keep = FALSE, !.connecting = FALSE, !.retry_pending = FALSE,
              !.is_connected = FALSE, !.tasks = EmptyBag]

\* Desk.connect from line 53 on, the disconnect() of line 52 having returned:
\* the new link and manager are created and the manager's connect awaited.
ReplaceManager(s, d, dv, address, retry) ==
    [s |-> connect([NewManager(s) EXCEPT !.ev.result = "none"], "user", retry),
     d |-> [d EXCEPT !.ble_device = address, !.monitoring = FALSE,
                     !.is_moving = FALSE, !.callback = "idle",
                     !.switching = None],
     dv |-> [dv EXCEPT !.created = TRUE, !.oldConnected = s.is_connected]]

\* Desk.connect that replaces the manager without awaiting its disconnect().
Desk_connect_no_disconnect(s, d, dv, address, retry) ==
    IF d.ble_device = address
    THEN [s |-> connect(s, "user", retry), d |-> d,
          dv |-> [dv EXCEPT !.reused = TRUE]]
    ELSE ReplaceManager(s, d, dv, address, retry)

\* Desk.connect up to its first suspension, lines 42-59. With the address it
\* holds it goes straight to the manager's connect; otherwise it awaits
\* Desk.disconnect (lines 61-65: the manager's disconnect, if there is a
\* manager), which suspends in link.disconnect() when the link is connected.
Desk_connect(s, d, dv, address, retry) ==
    IF d.ble_device = address
    THEN [s |-> connect(s, "user", retry), d |-> d,
          dv |-> [dv EXCEPT !.reused = TRUE]]
    ELSE IF d.ble_device = 0
         THEN ReplaceManager(s, d, dv, address, retry)
         ELSE IF s.is_connected
              THEN [s |-> disconnect(s, "switch"),
                    d |-> [d EXCEPT !.switching =
                                Some([address |-> address, retry |-> retry])],
                    dv |-> dv]
              ELSE ReplaceManager(disconnect(s, "switch"), d, dv, address, retry)

\* The write of Desk.move_to, lines 79-83: link.move_to_target(height) is
\* awaited, and the link reports moving until it returns or is stopped.
WriteTarget(d, dv, dt, pct, err) ==
    [d |-> [d EXCEPT !.is_moving = TRUE],
     dv |-> [dv EXCEPT !.written = Some(TargetHeight(pct, err))],
     dt |-> dt (+) SetToBag({DeskTask("move_to_target", pct)})]

\* Desk.move_to that writes the target without stopping a moving desk.
Desk_move_to_no_stop(connected, d, dv, dt, pct, err) ==
    IF ~connected \/ d.ble_device = 0
    THEN [d |-> d, dv |-> [dv EXCEPT !.returned = TRUE], dt |-> dt]
    ELSE WriteTarget(d, dv, dt, pct, err)

\* Desk.move_to that does not look at the connection.
Desk_move_to_unguarded(connected, d, dv, dt, pct, err) ==
    IF d.is_moving
    THEN [d |-> d, dv |-> [dv EXCEPT !.stopCalled = TRUE],
          dt |-> dt (+) SetToBag({DeskTask("move_stop", pct)})]
    ELSE WriteTarget(d, dv, dt, pct, err)

\* Desk.move_to up to its first suspension, lines 67-83.
Desk_move_to(connected, d, dv, dt, pct, err) ==
    IF ~connected \/ d.ble_device = 0
    THEN [d |-> d, dv |-> [dv EXCEPT !.returned = TRUE], dt |-> dt]
    ELSE IF d.is_moving
         THEN [d |-> d, dv |-> [dv EXCEPT !.stopCalled = TRUE],
               dt |-> dt (+) SetToBag({DeskTask("move_stop", pct)})]
         ELSE WriteTarget(d, dv, dt, pct, err)

\* Desk.stop up to its suspension, lines 95-101.
Desk_stop(connected, d, dv, dt) ==
    IF ~connected \/ d.ble_device = 0
    THEN [d |-> d, dv |-> [dv EXCEPT !.returned = TRUE], dt |-> dt]
    ELSE [d |-> d, dv |-> [dv EXCEPT !.stopCalled = TRUE],
          dt |-> dt (+) SetToBag({DeskTask("stop", 0)})]

\* A connect callback that ends without a word to the observer.
connect_callback_end_silent(d, dv, connected, subscribe) ==
    [d |-> [d EXCEPT !.callback = "idle",
                     !.monitoring = @ \/ (subscribe /\ connected)],
     dv |-> dv]

\* The connect callback of the Desk from line 165 on, after
\* _start_monitoring (lines 103-113) has subscribed update_height if the link
\* is connected: the observer is given the percentage.
connect_callback_end(d, dv, connected, subscribe) ==
    LET d1 == [d EXCEPT !.callback = "idle",
                        !.monitoring = @ \/ (subscribe /\ connected)]
    IN  [d |-> d1, dv |-> update_callback(dv, d1)]

\* ------------------------------------------------------------- the steps

ManagerInit ==
    /\ keep_connected = FALSE
    /\ connecting = FALSE
    /\ retry_pending = FALSE
    /\ is_connected = FALSE
    /\ tasks = EmptyBag
    /\ ev = NoEv
    /\ userCalls = 0
    /\ drops = 0
    /\ failures = 0
    /\ race = "none"

\* The manager of a Desk that nobody commands: construction with the default
\* monitor_height, line 24.
Init ==
    /\ ManagerInit
    /\ desk = NewDesk(TRUE)
    /\ dtasks = EmptyBag
    /\ dev = NoDev
    /\ deskCalls = 0

\* A step of the manager that the Desk takes no part in.
Frozen(A) == A /\ UNCHANGED deskVars

\* A failure is drawn only while the behaviour's budget of failures lasts.
Fails(outcome) == outcome # "ok"
Budget(outcome) ==
    /\ Fails(outcome) => failures < MaxFailures
    /\ failures' = IF Fails(outcome) THEN failures + 1 ELSE failures

\* The user awaits ConnectionManager.connect(retry).
UserConnect(retry) ==
    /\ userCalls < MaxUserCalls
    /\ userCalls' = userCalls + 1
    /\ Put(connect(Begin("connect", "user", retry), "user", retry))
    /\ race' = "none"
    /\ UNCHANGED <<drops, failures>>

\* The user awaits ConnectionManager.disconnect().
UserDisconnect ==
    /\ userCalls < MaxUserCalls
    /\ userCalls' = userCalls + 1
    /\ Put(disconnect(Begin("disconnect", "user", FALSE), "user"))
    /\ race' = IF connecting THEN "requested"
               ELSE IF race = "none" THEN "off" ELSE race
    /\ UNCHANGED <<drops, failures>>

\* The awaited link.connect() of an attempt completes.
LinkConnectReturns(t, outcome) ==
    /\ t \in TasksAt({"link_connect"})
    /\ Budget(outcome)
    /\ Put(AfterConnect(
            [DelTask(Begin("link_connect", t.origin, t.retry), t)
                EXCEPT !.ev.conn0 = t.conn0, !.ev.cause = outcome],
            t, outcome))
    /\ UNCHANGED <<userCalls, drops, race>>

\* The awaited link.pair() of an attempt completes.
LinkPairReturns(t, outcome) ==
    /\ t \in TasksAt({"link_pair"})
    /\ Budget(outcome)
    /\ Put(AfterPair(
            [DelTask(Begin("link_pair", t.origin, t.retry), t)
                EXCEPT !.ev.conn0 = t.conn0, !.ev.cause = outcome],
            t, outcome))
    /\ UNCHANGED <<userCalls, drops, race>>

\* The link.disconnect() awaited after a failed pairing completes: the link
\* is down, its disconnected callback has run, the except clause goes on.
LinkCleanupReturns(t) ==
    /\ t \in TasksAt({"pair_cleanup"})
    /\ Put(AfterCleanup(
            LinkDown([DelTask(Begin("pair_cleanup", t.origin, t.retry), t)
                        EXCEPT !.ev.conn0 = t.conn0, !.ev.cleaned = TRUE,
                               !.ev.cause = t.err]),
            t))
    /\ UNCHANGED <<userCalls, drops, failures, race>>

\* The awaited connect callback of an attempt completes.
ConnectCallbackReturns(t, outcome) ==
    /\ t \in TasksAt({"connect_callback"})
    /\ Budget(outcome)
    /\ Put(AfterCallback(
            [DelTask(Begin("connect_callback", t.origin, t.retry), t)
                EXCEPT !.ev.conn0 = t.conn0, !.ev.cause = outcome],
            outcome))
    /\ race' = IF race = "requested" /\ outcome = "ok" THEN "completed" ELSE race
    /\ UNCHANGED <<userCalls, drops>>

\* The link.disconnect() awaited by disconnect() completes.
LinkDisconnectReturns(t) ==
    /\ t \in TasksAt({"link_disconnect"})
    /\ Put(Returned(LinkDown(DelTask(Begin("link_disconnect", t.origin, FALSE), t))))
    /\ UNCHANGED <<userCalls, drops, failures, race>>

\* asyncio.sleep(RECONNECT_INTERVAL_SEC) of the reconnect task is over.
TimerExpires(t) ==
    /\ t \in TasksAt({"sleep"})
    /\ Put(_reconnect(DelTask(Begin("timer", "timer", TRUE), t)))
    /\ UNCHANGED <<userCalls, drops, failures, race>>

\* The event loop runs the task created at line 146: self.connect(True).
StartConnectTask(t) ==
    /\ t \in TasksAt({"start_connect"})
    /\ Put(connect(DelTask(Begin("connect", "task", TRUE), t), "task", TRUE))
    /\ UNCHANGED <<userCalls, drops, failures, race>>

\* The event loop runs the task created at line 132: self.disconnect().
StartDisconnectTask(t) ==
    /\ t \in TasksAt({"start_disconnect"})
    /\ Put(disconnect(DelTask(Begin("disconnect", "task", FALSE), t), "task"))
    /\ UNCHANGED <<userCalls, drops, failures, race>>

\* The connected link drops without anyone having asked.
Drop ==
    /\ is_connected
    /\ drops < MaxDrops
    /\ drops' = drops + 1
    /\ Put(LinkDown(Begin("drop", "none", FALSE)))
    /\ UNCHANGED <<userCalls, failures, race>>

Next ==
    \/ \E retry \in BOOLEAN : Frozen(UserConnect(retry))
    \/ Frozen(UserDisconnect)
    \/ \E t \in BagToSet(tasks), o \in {"ok"} \cup ConnectErrors : Frozen(LinkConnectReturns(t, o))
    \/ \E t \in BagToSet(tasks), o \in {"ok"} \cup PairErrors : Frozen(LinkPairReturns(t, o))
    \/ \E t \in BagToSet(tasks) : Frozen(LinkCleanupReturns(t))
    \/ \E t \in BagToSet(tasks), o \in {"ok", "CallbackError"} : Frozen(ConnectCallbackReturns(t, o))
    \/ \E t \in BagToSet(tasks) : Frozen(LinkDisconnectReturns(t))
    \/ \E t \in BagToSet(tasks) : Frozen(TimerExpires(t))
    \/ \E t \in BagToSet(tasks) : Frozen(StartConnectTask(t))
    \/ \E t \in BagToSet(tasks) : Frozen(StartDisconnectTask(t))
    \/ Frozen(Drop)

Spec == Init /\ [][Next]_vars

\* ------------------------------------------------------------- fairness
\* The event loop runs every ready task and every awaited call of the link
\* completes; the user and the drops of the link are under no obligation.
Progress ==
    \/ \E t \in BagToSet(tasks), o \in {"ok"} \cup ConnectErrors : Frozen(LinkConnectReturns(t, o))
    \/ \E t \in BagToSet(tasks), o \in {"ok"} \cup PairErrors : Frozen(LinkPairReturns(t, o))
    \/ \E t \in BagToSet(tasks) : Frozen(LinkCleanupReturns(t))
    \/ \E t \in BagToSet(tasks), o \in {"ok", "CallbackError"} : Frozen(ConnectCallbackReturns(t, o))
    \/ \E t \in BagToSet(tasks) : Frozen(LinkDisconnectReturns(t))
    \/ \E t \in BagToSet(tasks) : Frozen(TimerExpires(t))
    \/ \E t \in BagToSet(tasks) : Frozen(StartConnectTask(t))
    \/ \E t \in BagToSet(tasks) : Frozen(StartDisconnectTask(t))

FairSpec == Spec /\ WF_vars(Progress)

\* The retry scenario: every user call is connect(retry=True), the link never
\* drops by itself, link.connect() and link.pair() fail MaxFailures times.
RetryProgress ==
    \/ \E t \in BagToSet(tasks), o \in {"ok"} \cup ConnectErrors : Frozen(LinkConnectReturns(t, o))
    \/ \E t \in BagToSet(tasks), o \in {"ok"} \cup PairErrors : Frozen(LinkPairReturns(t, o))
    \/ \E t \in BagToSet(tasks) : Frozen(LinkCleanupReturns(t))
    \/ \E t \in BagToSet(tasks) : Frozen(ConnectCallbackReturns(t, "ok"))
    \/ \E t \in BagToSet(tasks) : Frozen(TimerExpires(t))

RetryNext == Frozen(UserConnect(TRUE)) \/ RetryProgress

RetrySpec == Init /\ [][RetryNext]_vars /\ WF_vars(RetryProgress)

\* The manager kept alive: every user connect is connect(retry=True), as cli.py
\* calls it, and no attempt ends by raising: link.connect() fails with the
\* errors the retry branch swallows, link.pair() with a generic Exception, the
\* connect callback never.  The user may disconnect and the link may drop.
KeepNext ==
    \/ Frozen(UserConnect(TRUE))
    \/ Frozen(UserDisconnect)
    \/ \E t \in BagToSet(tasks), o \in {"ok"} \cup ConnectErrors : Frozen(LinkConnectReturns(t, o))
    \/ \E t \in BagToSet(tasks), o \in {"ok", "Exception"} : Frozen(LinkPairReturns(t, o))
    \/ \E t \in BagToSet(tasks) : Frozen(LinkCleanupReturns(t))
    \/ \E t \in BagToSet(tasks) : Frozen(ConnectCallbackReturns(t, "ok"))
    \/ \E t \in BagToSet(tasks) : Frozen(LinkDisconnectReturns(t))
    \/ \E t \in BagToSet(tasks) : Frozen(TimerExpires(t))
    \/ \E t \in BagToSet(tasks) : Frozen(StartConnectTask(t))
    \/ \E t \in BagToSet(tasks) : Frozen(StartDisconnectTask(t))
    \/ Frozen(Drop)

KeepSpec == Init /\ [][KeepNext]_vars

\* ------------------------------------------------------- the Desk's steps

\* A step of a Desk coroutine, or of the link towards the Desk, in which the
\* manager does nothing.
ManagerIdle(op) ==
    /\ ev' = [NoEv EXCEPT !.op = op]
    /\ UNCHANGED <<keep_connected, connecting, retry_pending, is_connected,
                   tasks, userCalls, drops, failures, race>>

\* What a step of the manager does at the Desk. The manager awaits the
\* connect callback of the Desk (line 129), which starts with get_height()
\* when the height is monitored (lines 161-162); it invokes the disconnect
\* callback of the Desk (line 143); and a link that goes down delivers no
\* more heights.
DeskSees ==
    LET d1 == [desk EXCEPT
                  !.monitoring = @ /\ is_connected',
                  !.callback = IF ev'.connectCb
                               THEN IF desk.monitor_height
                                    THEN "get_height" ELSE "returning"
                               ELSE @]
    IN  /\ desk' = d1
        /\ dev' = IF ev'.disconnectCb
                  THEN _disconnect_callback(DeskOp(ev'.op), d1)
                  ELSE DeskOp(ev'.op)
        /\ UNCHANGED <<dtasks, deskCalls>>

\* The heights the link reports in the behaviours of the Desk.
DeskReadings == {TargetHeight(50, 0), TargetHeight(80, 0)}

\* The percentages the user asks for in the behaviours of the Desk.
DeskPcts == {50}

\* Every percentage, and the height of each as floating point may give it.
AllPcts == 0 .. 100
AllReadings == {TargetHeight(pct, err) : pct \in AllPcts, err \in FloatErrors}

\* The user awaits Desk.connect(ble_device, retry). A Desk.connect that has
\* to replace its manager is called while that manager has no coroutine
\* suspended, and while it waits for the manager's disconnect() the user
\* calls neither Desk.connect nor Desk.disconnect: the replaced manager then
\* has nothing left to run.
DeskConnect(address, retry) ==
    /\ userCalls < MaxUserCalls
    /\ desk.switching = None
    /\ desk.ble_device \notin {0, address} => tasks = EmptyBag
    /\ userCalls' = userCalls + 1
    /\ LET r == Desk_connect(Begin("connect", "user", retry), desk,
                             DeskOp("connect"), address, retry)
       IN  Put(r.s) /\ desk' = r.d /\ dev' = r.dv
    /\ race' = "none"
    /\ UNCHANGED <<drops, failures, dtasks, deskCalls>>

\* The link.disconnect() awaited by the disconnect() of line 52 completes and
\* Desk.connect goes on with the new link and manager.
SwitchDisconnectReturns(t) ==
    /\ t \in TasksAt({"link_disconnect"})
    /\ t.origin = "switch"
    /\ desk.switching # None
    /\ LET to == desk.switching[1]
           s1 == LinkDown(DelTask(Begin("link_disconnect", "switch", to.retry), t))
           dv1 == IF s1.ev.disconnectCb
                  THEN _disconnect_callback(DeskOp("link_disconnect"), desk)
                  ELSE DeskOp("link_disconnect")
           r == ReplaceManager(s1, desk, dv1, to.address, to.retry)
       IN  Put(r.s) /\ desk' = r.d /\ dev' = r.dv
    /\ UNCHANGED <<userCalls, drops, failures, race, dtasks, deskCalls>>

\* The user awaits Desk.disconnect() of a Desk that has no manager yet,
\* lines 61-65.
DeskDisconnectNoManager ==
    /\ userCalls < MaxUserCalls
    /\ desk.ble_device = 0
    /\ userCalls' = userCalls + 1
    /\ ev' = [NoEv EXCEPT !.op = "disconnect", !.origin = "user",
                          !.result = "returned"]
    /\ dev' = [DeskOp("disconnect") EXCEPT !.returned = TRUE]
    /\ UNCHANGED <<keep_connected, connecting, retry_pending, is_connected,
                   tasks, drops, failures, race, desk, dtasks, deskCalls>>

\* The user awaits Desk.disconnect() of a Desk that has a manager.
DeskDisconnect ==
    /\ desk.ble_device # 0
    /\ desk.switching = None
    /\ UserDisconnect
    /\ DeskSees

\* get_height() of the connect callback returns on the connected link, lines
\* 162-163 and 105-113: the height is kept and monitor() is awaited.
GetHeightReturns(t, reading) ==
    /\ t \in TasksAt({"connect_callback"})
    /\ desk.callback = "get_height"
    /\ is_connected
    /\ desk' = [update_height(desk, reading) EXCEPT !.callback = "monitor"]
    /\ dev' = DeskOp("get_height")
    /\ ManagerIdle("get_height")
    /\ UNCHANGED <<dtasks, deskCalls>>

\* The connect callback of the Desk ends, lines 155-165, and with it the
\* callback the manager awaits. It raises only from the link calls it awaits,
\* get_height() and monitor(); get_height() that returns on a link that is
\* down is followed by _start_monitoring returning at line 107.
DeskCallbackReturns(t, outcome, reading) ==
    /\ outcome = "ok" =>
            \/ desk.callback \in {"monitor", "returning"}
            \/ desk.callback = "get_height" /\ ~is_connected
    /\ outcome # "ok" => desk.callback \in {"get_height", "monitor"}
    /\ ConnectCallbackReturns(t, outcome)
    /\ IF outcome = "ok"
       THEN LET d0 == IF desk.callback = "get_height"
                      THEN update_height(desk, reading) ELSE desk
                r == connect_callback_end(d0, DeskOp("connect_callback"),
                                          is_connected, desk.callback = "monitor")
            IN  desk' = r.d /\ dev' = r.dv
       ELSE /\ desk' = [desk EXCEPT !.callback = "idle"]
            /\ dev' = DeskOp("connect_callback")
    /\ UNCHANGED <<dtasks, deskCalls>>

\* The subscribed link reports a height: update_height, lines 109-111.
MonitorUpdate(reading) ==
    /\ desk.monitoring
    /\ is_connected
    /\ desk' = update_height(desk, reading)
    /\ dev' = update_callback(DeskOp("update_height"), desk')
    /\ ManagerIdle("update_height")
    /\ UNCHANGED <<dtasks, deskCalls>>

\* The user awaits Desk.move_to(pct); move_up and move_down are move_to(100)
\* and move_to(0), lines 85-93.
MoveCall(op, pct) ==
    /\ deskCalls < MaxDeskCalls
    /\ deskCalls' = deskCalls + 1
    /\ \E err \in FloatErrors :
          LET r == Desk_move_to(is_connected, desk,
                                [DeskOp(op) EXCEPT !.pct = pct], dtasks, pct, err)
          IN  desk' = r.d /\ dev' = r.dv /\ dtasks' = r.dt
    /\ ManagerIdle(op)

DeskMoveTo(pct) == MoveCall("move_to", pct)
DeskMoveUp == MoveCall("move_up", 100)
DeskMoveDown == MoveCall("move_down", 0)

\* The user awaits Desk.stop().
DeskStop ==
    /\ deskCalls < MaxDeskCalls
    /\ deskCalls' = deskCalls + 1
    /\ LET r == Desk_stop(is_connected, desk, DeskOp("stop"), dtasks)
       IN  desk' = r.d /\ dev' = r.dv /\ dtasks' = r.dt
    /\ ManagerIdle("stop")

\* link.stop() awaited by move_to returns, lines 75-77: the desk has stopped
\* and asyncio.sleep(0.5) is awaited.
MoveStopReturns(t) ==
    /\ t \in BagToSet(dtasks)
    /\ t.pc = "move_stop"
    /\ desk' = [desk EXCEPT !.is_moving = FALSE]
    /\ dtasks' = (dtasks (-) SetToBag({t})) (+) SetToBag({DeskTask("settle", t.pct)})
    /\ dev' = [DeskOp("move_stop") EXCEPT !.pct = t.pct]
    /\ ManagerIdle("move_stop")
    /\ UNCHANGED deskCalls

\* asyncio.sleep(0.5) of move_to is over, lines 77-83: the target is written.
SettleOver(t) ==
    /\ t \in BagToSet(dtasks)
    /\ t.pc = "settle"
    /\ \E err \in FloatErrors :
          LET r == WriteTarget(desk, [DeskOp("settle") EXCEPT !.pct = t.pct],
                               dtasks (-) SetToBag({t}), t.pct, err)
          IN  desk' = r.d /\ dev' = r.dv /\ dtasks' = r.dt
    /\ ManagerIdle("settle")
    /\ UNCHANGED deskCalls

\* link.move_to_target() awaited by move_to returns: the desk moves no more.
MoveToTargetReturns(t) ==
    /\ t \in BagToSet(dtasks)
    /\ t.pc = "move_to_target"
    /\ desk' = [desk EXCEPT !.is_moving = FALSE]
    /\ dtasks' = dtasks (-) SetToBag({t})
    /\ dev' = [DeskOp("move_to_target") EXCEPT !.pct = t.pct, !.returned = TRUE]
    /\ ManagerIdle("move_to_target")
    /\ UNCHANGED deskCalls

\* link.stop() awaited by Desk.stop returns.
StopReturns(t) ==
    /\ t \in BagToSet(dtasks)
    /\ t.pc = "stop"
    /\ desk' = [desk EXCEPT !.is_moving = FALSE]
    /\ dtasks' = dtasks (-) SetToBag({t})
    /\ dev' = [DeskOp("stop_returns") EXCEPT !.returned = TRUE]
    /\ ManagerIdle("stop_returns")
    /\ UNCHANGED deskCalls

\* The Desk as the user constructs it, with or without height monitoring.
DeskInit ==
    /\ ManagerInit
    /\ \E monitor_height \in BOOLEAN : desk = NewDesk(monitor_height)
    /\ dtasks = EmptyBag
    /\ dev = NoDev
    /\ deskCalls = 0

\* The Desk and its manager: connections, failures, drops, heights; no
\* commands. Of the errors of link.connect() and link.pair() one each.
DeskNext ==
    \/ \E a \in Addresses, retry \in BOOLEAN : DeskConnect(a, retry)
    \/ \E t \in BagToSet(tasks) : SwitchDisconnectReturns(t)
    \/ DeskDisconnectNoManager
    \/ DeskDisconnect
    \/ \E t \in BagToSet(tasks), o \in {"ok", "TimeoutError"} :
            LinkConnectReturns(t, o) /\ DeskSees
    \/ \E t \in BagToSet(tasks), o \in {"ok", "Exception"} :
            LinkPairReturns(t, o) /\ DeskSees
    \/ \E t \in BagToSet(tasks) : LinkCleanupReturns(t) /\ DeskSees
    \/ \E t \in BagToSet(tasks), r \in DeskReadings : GetHeightReturns(t, r)
    \/ \E t \in BagToSet(tasks), o \in {"ok", "CallbackError"}, r \in DeskReadings :
            DeskCallbackReturns(t, o, r)
    \/ \E t \in BagToSet(tasks) :
            t.origin # "switch" /\ LinkDisconnectReturns(t) /\ DeskSees
    \/ \E t \in BagToSet(tasks) : TimerExpires(t) /\ DeskSees
    \/ \E t \in BagToSet(tasks) : StartConnectTask(t) /\ DeskSees
    \/ \E t \in BagToSet(tasks) : StartDisconnectTask(t) /\ DeskSees
    \/ Drop /\ DeskSees
    \/ \E r \in DeskReadings : MonitorUpdate(r)

DeskSpec == DeskInit /\ [][DeskNext]_vars

\* The commands: a Desk without height monitoring whose link connects
\* without failing and drops, and the user's move_to, move_up, move_down
\* and stop.
MoveInit ==
    /\ ManagerInit
    /\ desk = NewDesk(FALSE)
    /\ dtasks = EmptyBag
    /\ dev = NoDev
    /\ deskCalls = 0

MoveNext ==
    \/ DeskConnect(1, FALSE)
    \/ \E t \in BagToSet(tasks) : LinkConnectReturns(t, "ok") /\ DeskSees
    \/ \E t \in BagToSet(tasks) : LinkPairReturns(t, "ok") /\ DeskSees
    \/ \E t \in BagToSet(tasks) : DeskCallbackReturns(t, "ok", MIN_HEIGHT)
    \/ \E t \in BagToSet(tasks) : StartConnectTask(t) /\ DeskSees
    \/ Drop /\ DeskSees
    \/ \E pct \in DeskPcts : DeskMoveTo(pct)
    \/ DeskMoveUp
    \/ DeskMoveDown
    \/ DeskStop
    \/ \E t \in BagToSet(dtasks) : MoveStopReturns(t)
    \/ \E t \in BagToSet(dtasks) : SettleOver(t)
    \/ \E t \in BagToSet(dtasks) : MoveToTargetReturns(t)
    \/ \E t \in BagToSet(dtasks) : StopReturns(t)

MoveSpec == MoveInit /\ [][MoveNext]_vars

\* The percentages: a Desk that connects without failing, the user asking
\* once for any percentage, and the link reporting the height that was
\* written.
PctNext ==
    \/ DeskConnect(1, FALSE)
    \/ \E t \in BagToSet(tasks) : LinkConnectReturns(t, "ok") /\ DeskSees
    \/ \E t \in BagToSet(tasks) : LinkPairReturns(t, "ok") /\ DeskSees
    \/ \E t \in BagToSet(tasks) : GetHeightReturns(t, MIN_HEIGHT)
    \/ \E t \in BagToSet(tasks) : DeskCallbackReturns(t, "ok", MIN_HEIGHT)
    \/ \E pct \in AllPcts : deskCalls = 0 /\ DeskMoveTo(pct)
    \/ \E r \in AllReadings : dev.written = Some(r) /\ MonitorUpdate(r)
    \/ \E t \in BagToSet(dtasks) : MoveToTargetReturns(t)

PctSpec == DeskInit /\ [][PctNext]_vars

\* --------------------------------------------------------------- claims

\* How many coroutines wait at one of the places pcs.
Count(pcs) == BagCardinality([t \in TasksAt(pcs) |-> tasks[t]])

\* An attempt has just ended: _connect returned to, or raised into, its caller.
AttemptEnded ==
    /\ ev.op \in {"link_connect", "pair_cleanup", "connect_callback", "link_pair"}
    /\ ev.result # "none"

\* C1: at most one connect -> pair sequence is in flight: no link.connect() is
\* started while an earlier link.connect() or link.pair() has not returned.
C1_OneAttemptInFlight ==
    /\ Count({"link_connect", "link_pair", "pair_cleanup", "connect_callback"}) <= 1
    /\ ev.connectStarted => Count({"link_connect"}) = 1 /\ Count({"link_pair"}) = 0

\* C1 witness: connect() was called while link.connect() was pending and
\* returned without starting a second one.
C1_Witness ==
    /\ ev.op = "connect" /\ ev.result = "returned"
    /\ Count({"link_connect"}) = 1

\* C2: at most one reconnect timer task is outstanding, _retry_pending is true
\* exactly when one is, and _schedule_reconnect called while it is true
\* creates no second task.
C2_OneTimer ==
    /\ Count({"sleep"}) = (IF retry_pending THEN 1 ELSE 0)
    /\ ev.schedCalled => retry_pending /\ Count({"sleep"}) = 1

\* C2 witness: _schedule_reconnect was called while a timer was pending.
C2_Witness == ev.schedCalled /\ ~ev.scheduled /\ Count({"sleep"}) = 1

\* An attempt with retry=True has just ended after a failure of link.connect()
\* or of link.pair() that is not the authentication failure.
RetryAttemptFailed ==
    /\ AttemptEnded
    /\ ev.retry
    /\ ev.failedAt \in {"connect", "pair"}
    /\ ev.cause # AuthDBusError

\* C3: an attempt with retry=True that fails at link.connect(), or at
\* link.pair() with an error that is not the authentication failure, returns
\* normally and leaves exactly one reconnect timer pending.
C3_RetrySwallowsErrors ==
    RetryAttemptFailed =>
        /\ ev.result = "returned"
        /\ retry_pending
        /\ Count({"sleep"}) = 1

\* C4: after an attempt with retry=True has failed at connect or pair and left
\* the link down, the link is eventually connected and the connect callback
\* invoked (or an authentication failure ends the retries), as long as the
\* user does not disconnect and the failures stop.
C4_RetryEventuallyConnects ==
    /\ (RetryAttemptFailed /\ ~is_connected) ~>
            (is_connected \/ ev.error = "AuthFailedError")
    /\ (RetryAttemptFailed /\ ~is_connected) ~>
            (ev.connectCb \/ ev.error = "AuthFailedError")

\* An attempt with retry=False has just ended after a failure of
\* link.connect() or link.pair().
NoRetryAttemptFailed ==
    /\ AttemptEnded
    /\ ~ev.retry
    /\ ev.failedAt \in {"connect", "pair"}

\* C5 as stated: a failed attempt with retry=False raises, leaves the link not
\* connected, schedules no reconnect and invokes no connect callback.
C5_NoRetryPropagates ==
    NoRetryAttemptFailed =>
        /\ ev.result = "raised"
        /\ ~is_connected
        /\ ~ev.schedCalled /\ ~ev.scheduled
        /\ ~ev.connectCb

\* C5 amended: the same, the link being not connected afterwards when the
\* failure is at link.pair(), or at link.connect() of an attempt that began
\* with the link not connected.
C5_NoRetryPropagatesAmended ==
    NoRetryAttemptFailed =>
        /\ ev.result = "raised"
        /\ (ev.failedAt = "pair" \/ ~ev.conn0) => ~is_connected
        /\ ~ev.schedCalled /\ ~ev.scheduled
        /\ ~ev.connectCb

\* C5 witness: link.connect() failed in an attempt with retry=False that began
\* on a link that was not connected, while a reconnect timer was pending.
C5_Witness ==
    /\ NoRetryAttemptFailed /\ ev.failedAt = "connect" /\ ~ev.conn0
    /\ retry_pending

C8_PairFailureCleansUp ==
    /\ (ev.op = "link_pair" /\ ev.cause \in PairErrors) =>
            /\ ev.disconnectCalled
            /\ ev.result = "none" /\ ~ev.schedCalled
            /\ Count({"pair_cleanup"}) = 1
    /\ (AttemptEnded /\ ev.failedAt = "pair") => ev.cleaned /\ ~is_connected

\* C8 witness: an attempt ended by scheduling a reconnect after a failed
\* pairing and its cleanup.
C8_Witness ==
    /\ AttemptEnded /\ ev.failedAt = "pair" /\ ev.cleaned
    /\ ev.scheduled /\ ~is_connected

\* C9: when disconnect() was called during an attempt and no connect() by the
\* user has followed, the link is not connected once the attempt has completed
\* and nothing is left to run.
C9_NotConnectedAfterRace ==
    (race = "completed" /\ tasks = EmptyBag) => ~is_connected

\* The ways out of C10's promise: a later failure of the link or of the
\* callback, or DesiredState cleared.
C10_Escape == ev.failedAt # "none" \/ ~keep_connected

\* An unsolicited drop has just created the reconnect task.
C10_Reconnecting == ev.op = "drop" /\ ev.spawned = "connect"

\* C10: a drop with no attempt in flight invokes the disconnect callback; with
\* DesiredState true and no timer pending it starts a reconnection at once,
\* and unless the transport fails again the link is connected again and the
\* connect callback invoked again.
C10_DropReconnects ==
    /\ [](ev.op = "drop" /\ ~connecting =>
            /\ ev.disconnectCb
            /\ (keep_connected /\ ~retry_pending) =>
                    ev.spawned = "connect" /\ Count({"start_connect"}) >= 1)
    /\ C10_Reconnecting ~> (is_connected \/ C10_Escape)
    /\ C10_Reconnecting ~> (ev.connectCb \/ C10_Escape)

\* C10 witness: after a drop that started a reconnection, the connect callback
\* is invoked again on the connected link.
C10_Witness ==
    /\ drops >= 1 /\ failures = 0 /\ userCalls = 1
    /\ ev.connectCb /\ ev.origin = "task" /\ is_connected

\* The coroutines of an attempt: a _connect body between its guard and its
\* finally clause.
AttemptPcs == {"link_connect", "link_pair", "pair_cleanup", "connect_callback"}

\* The user's disconnect() has just returned.
C11_DisconnectReturned ==
    /\ ev.op \in {"disconnect", "link_disconnect"}
    /\ ev.origin = "user" /\ ev.result = "returned"

\* What a disconnect() that is a no-op does: it returns, calls nothing,
\* invokes no callback and creates no coroutine.
C11_NothingDone ==
    /\ ev'.result = "returned"
    /\ ~ev'.disconnectCalled /\ ~ev'.connectCb /\ ~ev'.disconnectCb
    /\ ~ev'.schedCalled /\ ev'.spawned = "none"
    /\ connecting' = connecting /\ retry_pending' = retry_pending
    /\ is_connected' = is_connected
    /\ \A t \in BagToSet(tasks') : CopiesIn(t, tasks') <= CopiesIn(t, tasks)
    /\ dev'.observed = 0 /\ desk' = desk /\ dtasks' = dtasks

\* C11: disconnect() on a link that is not connected, or of a Desk that has
\* no manager yet, returns without raising, calls no link.disconnect(),
\* invokes no callback and no observer and changes nothing but DesiredState,
\* which it clears; a disconnect() that follows a disconnect() that has
\* returned changes nothing at all.
C11_DisconnectNoOp ==
    [][/\ (ev'.op = "disconnect" /\ ~is_connected) =>
                /\ C11_NothingDone
                /\ ~keep_connected'
                /\ ev'.origin = "user" => tasks' = tasks
       /\ (C11_DisconnectReturned /\ ~keep_connected
                /\ ev'.op = "disconnect" /\ ev'.origin = "user") =>
                /\ C11_NothingDone
                /\ tasks' = tasks /\ keep_connected' = keep_connected]_vars

\* C11 witness: the third call of the user, after a connect, is a
\* disconnect() that found the link of the Desk down and returned at once.
C11_Witness ==
    /\ ev.op = "disconnect" /\ ev.origin = "user" /\ ev.result = "returned"
    /\ userCalls = 3 /\ race = "off" /\ drops = 0 /\ failures = 0
    /\ desk.ble_device # 0 /\ desk.height # None
    /\ ~is_connected /\ ~keep_connected /\ tasks = EmptyBag

C19_FlagClearedOnExit ==
    /\ Count(AttemptPcs) = 0 => ~connecting
    /\ AttemptEnded => ~connecting
    /\ (ev.op = "connect" /\ ev.result = "returned") => Count(AttemptPcs) = 1

\* C19 witness: an attempt ended by the exception of the connect callback and
\* the flag is false.
C19_Witness ==
    /\ AttemptEnded /\ ev.failedAt = "callback" /\ ev.result = "raised"
    /\ ~connecting /\ Count(AttemptPcs) = 0

\* C20: after a disconnect() of the user with no connect() of the user since,
\* DesiredState is false and no step starts link.connect().
C20_DesiredOnlyByUser ==
    race # "none" => ~keep_connected /\ ~ev.connectStarted

\* The link has gone down in this step.
LinkWentDown == is_connected /\ ~is_connected'

\* An attempt has succeeded in this step: its connect callback has returned.
AttemptSucceeded == ev'.op = "connect_callback" /\ ev'.result = "returned"

C14_DeskConnect == dev'.op = "connect" /\ ev'.origin = "user"

CommandOps == {"move_to", "move_up", "move_down", "stop"}
MoveOps == {"move_to", "move_up", "move_down"}

\* How many coroutines of move_to and stop wait at the place pc.
DCount(pc) ==
    BagCardinality([t \in {u \in BagToSet(dtasks) : u.pc = pc} |-> dtasks[t]])

\* C15: move_to on a connected desk that is moving calls link.stop() and
\* writes nothing yet; the settle delay starts only when link.stop() has
\* returned, and the write that is not made by the call itself is made when
\* the delay is over; move_to on a connected desk that is not moving writes
\* the height of its percentage and calls no stop.
C15_StopBeforeMove ==
    [][/\ (dev'.op \in MoveOps /\ is_connected /\ desk.is_moving) =>
                /\ dev'.stopCalled /\ dev'.written = None
                /\ DCount("move_stop")' = DCount("move_stop") + 1
                /\ DCount("move_to_target")' = DCount("move_to_target")
       /\ (dev'.op \in MoveOps /\ is_connected /\ ~desk.is_moving) =>
                /\ ~dev'.stopCalled
                /\ \E err \in FloatErrors :
                        dev'.written = Some(TargetHeight(dev'.pct, err))
       /\ DCount("settle")' > DCount("settle") =>
                DCount("move_stop")' < DCount("move_stop")
       /\ (dev'.written # None /\ dev'.op \notin MoveOps) =>
                /\ DCount("settle")' < DCount("settle")
                /\ ~dev'.stopCalled
                /\ \E err \in FloatErrors :
                        dev'.written = Some(TargetHeight(dev'.pct, err))]_vars

\* C15 witness: the settle delay of a move_to(50) is over and the height of
\* 50 % has been written.
C15_Witness ==
    /\ dev.op = "settle" /\ dev.pct = 50
    /\ dev.written = Some(TargetHeight(50, 0))
    /\ is_connected

\* C16: move_to, move_up, move_down and stop on a Desk whose link is not
\* connected return without a call to the link and change nothing.
C16_CommandsNoOp ==
    [][(dev'.op \in CommandOps /\ ~is_connected) =>
            /\ dev'.returned
            /\ ~dev'.stopCalled /\ dev'.written = None
            /\ desk' = desk /\ dtasks' = dtasks
            /\ UNCHANGED <<keep_connected, connecting, retry_pending,
                           is_connected, tasks>>]_vars

\* C16 witness: move_up has returned on a Desk whose link had dropped.
C16_Witness ==
    /\ dev.op = "move_up" /\ dev.returned
    /\ desk.ble_device # 0 /\ drops >= 1 /\ ~is_connected

\* C17: for every percentage from 0 to 100, the height move_to writes for it
\* has that percentage, a kept height that is the height of a percentage
\* makes height_percent that percentage, and the observer is given it.
C17_PercentRoundTrip ==
    /\ dev.written # None => height_percent(dev.written) = Some(dev.pct)
    /\ \A pct \in AllPcts, err \in FloatErrors :
            desk.height = Some(TargetHeight(pct, err)) =>
                /\ height_percent(desk.height) = Some(pct)
                /\ dev.op = "update_height" =>
                        dev.observed = 1 /\ dev.payload = Some(pct)

\* C17 witness: the link has reported the height written for 80 %, computed
\* a little low, and the observer was given 80.
C17_Witness ==
    /\ dev.op = "update_height" /\ dev.payload = Some(80)
    /\ desk.height = Some(TargetHeight(80, 0 - FloatErr))

\* C18: the kept height, and with it height_percent, is absent until
\* get_height() or the monitored link gives a height; no step makes it absent
\* again; and the observer invoked on a disconnect is given the percentage of
\* the height kept before.
C18_HeightKept ==
    [][/\ desk.height # None => desk'.height # None
       /\ (desk.height = None /\ desk'.height # None) =>
                dev'.op \in {"get_height", "update_height", "connect_callback"}
       /\ dev'.op \in {"get_height", "update_height"} => desk'.height # None
       /\ (height_percent(desk'.height) = None) = (desk'.height = None)
       /\ ev'.disconnectCb =>
                /\ dev'.observed = 1
                /\ dev'.payload = height_percent(desk.height)
                /\ desk'.height = desk.height]_vars

\* C18 witness: the link has dropped after it had reported the height of
\* 80 %, and the observer was given 80.
C18_Witness ==
    /\ ev.op = "drop" /\ ev.disconnectCb
    /\ dev.observed = 1 /\ dev.payload = Some(80)
    /\ desk.height = Some(TargetHeight(80, 0))

\* The reconnect timer has expired in this step.
TimerExpired == ev'.op = "timer"

\* C21: a reconnect timer that expires while DesiredState is false clears
\* _retry_pending, starts no attempt and schedules no timer; and after a
\* disconnect() of the user with no connect() of the user since, no expiry
\* starts an attempt or schedules a timer.
C21_TimerStopsAfterDisconnect ==
    [][/\ (TimerExpired /\ ~keep_connected) =>
                /\ ~retry_pending'
                /\ ev'.result = "returned"
                /\ ~ev'.connectStarted /\ ~ev'.schedCalled
                /\ Count({"sleep"})' = 0
                /\ Count({"link_connect"})' = Count({"link_connect"})
       /\ (TimerExpired /\ race # "none") =>
                ~ev'.connectStarted /\ ~ev'.schedCalled]_vars

\* C22: connect() of the user while a timer is pending and no attempt is in
\* flight starts link.connect() and leaves the timer pending; the expiry of
\* the timer clears _retry_pending; on a connected link it starts no
\* link.connect() and invokes no callback; on a link that is not connected,
\* DesiredState being true, it calls _connect(True), which starts
\* link.connect() unless an attempt is in flight.
C22_TimerAfterUserConnect ==
    [][/\ (ev'.op = "connect" /\ ev'.origin = "user"
                /\ retry_pending /\ ~connecting) =>
                /\ ev'.connectStarted
                /\ retry_pending' /\ Count({"sleep"})' = 1
       /\ TimerExpired => ~retry_pending' /\ Count({"sleep"})' = 0
       /\ (TimerExpired /\ is_connected) =>
                /\ ev'.result = "returned"
                /\ ~ev'.connectStarted /\ ~ev'.connectCb
                /\ Count({"link_connect"})' = Count({"link_connect"})
       /\ (TimerExpired /\ ~is_connected /\ keep_connected /\ ~connecting) =>
                /\ ev'.connectStarted /\ connecting'
                /\ \A t \in TasksAt({"link_connect"})' :
                        t.retry /\ t.origin = "timer"
       /\ (TimerExpired /\ ~is_connected /\ keep_connected /\ connecting) =>
                ev'.result = "returned" /\ ~ev'.connectStarted]_vars

\* C22 witness: the timer has expired on the link that the user's later
\* connect() had connected, and nothing was started.
C22_Witness ==
    /\ ev.op = "timer" /\ ev.result = "returned"
    /\ is_connected /\ keep_connected /\ ~retry_pending
    /\ userCalls = 2 /\ tasks = EmptyBag

\* What connect() during an attempt in flight leaves alone.
C23_NothingStarted ==
    /\ ev'.result = "returned"
    /\ ~ev'.connectStarted /\ ~ev'.pairStarted /\ ~ev'.disconnectCalled
    /\ ~ev'.connectCb /\ ~ev'.disconnectCb /\ ~ev'.schedCalled
    /\ connecting' = connecting /\ retry_pending' = retry_pending
    /\ is_connected' = is_connected
    /\ ev'.origin = "user" => tasks' = tasks

\* C23 as stated: connect() while an attempt is in flight returns, starts
\* nothing and leaves the in-flight flag, _retry_pending, DesiredState and
\* the link unchanged.
C23_ConnectInFlightNoOp ==
    [][(ev'.op = "connect" /\ connecting) =>
            C23_NothingStarted /\ keep_connected' = keep_connected]_vars

\* C23 amended: the same, DesiredState being true afterwards whatever it was.
C23_ConnectInFlightNoOpAmended ==
    [][(ev'.op = "connect" /\ connecting) =>
            C23_NothingStarted /\ keep_connected']_vars

\* C23 witness: connect() of the user has returned during an attempt that a
\* disconnect() had asked to abandon, and DesiredState is true again.
C23_Witness ==
    /\ ev.op = "connect" /\ ev.origin = "user" /\ ev.result = "returned"
    /\ connecting /\ keep_connected /\ userCalls = 3
    /\ Count({"link_connect"}) = 1

\* C24: AuthFailedError is raised into a connect() that the user awaits.
C24_AuthFailureReachesUser ==
    ev.error = "AuthFailedError" => ev.origin = "user"

\* C26: the manager that Desk.connect has replaced is a manager whose
\* disconnect() was called and that the Desk calls no more: it starts no
\* link.connect(), and when it has nothing left to run its link is not
\* connected.
C26_ReplacedManagerQuiet ==
    /\ (race # "none" /\ ev.op # "disconnect") => ~ev.connectStarted
    /\ (race # "none" /\ tasks = EmptyBag) => ~is_connected

\* C25: under connect(retry=True) only and with no attempt that raises,
\* whenever DesiredState is true and the link is not connected an attempt is
\* in flight, a reconnect timer is pending or a reconnect task is waiting to
\* run.
C25_NoStuckState ==
    (keep_connected /\ ~is_connected) =>
        \/ connecting \/ Count(AttemptPcs) > 0
        \/ retry_pending \/ Count({"sleep"}) > 0
        \/ Count({"start_connect"}) > 0
====
